---- MODULE Spec2Model ----
(***************************************************************************)
(* Model of the tls-constraints charm (src/src/charm.py): the CSR filters   *)
(* LimitToOneRequest and LimitToFirstRequester, the filter chain of         *)
(* TLSConstraintsCharm._is_certificate_allowed, and the event handlers of   *)
(* TLSConstraintsCharm.                                                     *)
(***************************************************************************)
EXTENDS Integers, Sequences, FiniteSets, TLC

\* ------------------------------------------------------------------ bounds

\* At most this many (relation id, CSR) entries in the requirers' databags.
MaxRequirerCsrs == 2
\* At most this many deferred creation-request events in the framework queue.
MaxDeferred == 1

\* The ids of the downstream (requirer) relations.
RelationIds == {0, 1}

\* ------------------------------------------------ CSRs and what they parse to

\* The CSR byte strings that requirers send.  A CSR is compared by its bytes
\* (its name here); only x509.load_pem_x509_csr gives it a meaning.
CSRS == {"A", "B", "C", "NoSAN", "Bad"}

\* An IPv4 address object, as ipaddress.IPv4Address keeps it: four octets.
IP1 == <<10, 0, 0, 1>>
\* An x509.ObjectIdentifier, as a sequence of arcs.
OID1 == <<1, 2, 3>>

\* What each CSR parses to: ok = FALSE when the bytes do not parse
\* (ValueError); has_san = FALSE when the SubjectAlternativeName extension is
\* absent (get_extension_for_class raises ExtensionNotFound).  Each of A, B, C
\* has a SAN of one kind and a common name that is the SAN of another.
Parsed ==
    [csr \in CSRS |->
        CASE csr = "A" ->
               [ok |-> TRUE, has_san |-> TRUE, subjects |-> <<"1.2.3">>,
                dns |-> <<"a.com">>, ips |-> <<>>, oids |-> <<>>]
          [] csr = "B" ->
               [ok |-> TRUE, has_san |-> TRUE, subjects |-> <<"a.com">>,
                dns |-> <<>>, ips |-> <<IP1>>, oids |-> <<>>]
          [] csr = "C" ->
               [ok |-> TRUE, has_san |-> TRUE, subjects |-> <<"10.0.0.1">>,
                dns |-> <<>>, ips |-> <<>>, oids |-> <<OID1>>]
          [] csr = "NoSAN" ->
               [ok |-> TRUE, has_san |-> FALSE, subjects |-> <<"a.com">>,
                dns |-> <<>>, ips |-> <<>>, oids |-> <<>>]
          [] OTHER ->
               [ok |-> FALSE, has_san |-> FALSE, subjects |-> <<>>,
                dns |-> <<>>, ips |-> <<>>, oids |-> <<>>]]

\* x509.load_pem_x509_csr(csr)
load_pem_x509_csr(csr) == Parsed[csr]

\* "." .join of the decimal forms of a sequence of numbers.
RECURSIVE Dotted(_)
Dotted(s) ==
    IF Len(s) = 0 THEN ""
    ELSE IF Len(s) = 1 THEN ToString(s[1])
    ELSE ToString(s[1]) \o "." \o Dotted(Tail(s))

\* The dotted forms of the addresses and object identifiers in use.
DottedOf == [x \in {IP1, OID1} |-> Dotted(x)]

\* str(ip) of an IPv4Address: the dotted quad.
str_ip(ip) == DottedOf[ip]
\* ObjectIdentifier.dotted_string.
dotted_string(oid) == DottedOf[oid]

\* [str(ip) for ip in ips]
str_ips(ips) == [i \in DOMAIN ips |-> str_ip(ips[i])]
\* [oid.dotted_string for oid in oids]
dotted_strings(oids) == [i \in DOMAIN oids |-> dotted_string(oids[i])]
\* The set of elements of a sequence.
Range(s) == {s[i] : i \in DOMAIN s}

\* ------------------------------------------------------- reserved identifiers

Kinds == {"dns", "ip", "oid"}

\* The Python dict {}.
EmptyDict == [k \in {} |-> 0]

\* d.get(key, {})
DictGet(d, key) == IF key \in DOMAIN d THEN d[key] ELSE EmptyDict

\* The right operand in the place of the union.
DictUnion_replace(a, b) == b

\* Python's dict union  a | b : the right operand wins on a shared key.
DictUnion(a, b) ==
    [k \in DOMAIN a \cup DOMAIN b |-> IF k \in DOMAIN b THEN b[k] ELSE a[k]]

\* {key: value for key in keys}
DictFromKeys(keys, value) == [k \in Range(keys) |-> value]

\* json.dumps of the mapping kind -> (identifier -> relation id): a JSON
\* document is the set of its members, each member of an inner object a
\* <<key, number>> pair.
json_dumps(mapping) ==
    {<<kind, {<<id, mapping[kind][id]>> : id \in DOMAIN mapping[kind]}>> :
        kind \in DOMAIN mapping}

\* json.loads: the dict of the document's members.
json_loads(doc) ==
    LET Member(k) == CHOOSE m \in doc : m[1] = k
        Inner(obj) == [id \in {p[1] : p \in obj} |->
                          (CHOOSE p \in obj : p[1] = id)[2]]
    IN  [k \in {m[1] : m \in doc} |-> Inner(Member(k)[2])]

\* The value stored when the databag has no "reserved-identifiers" key: "{}".
EmptyDocument == {}

VARIABLES
    config_one,        \* config "limit-to-one-request"
    config_first,      \* config "limit-to-first-requester"
    upstream_relation, \* the certificates-upstream relation exists
    peer_relation,     \* the reserved-identifiers peer relation exists
    reserved,          \* the peer app databag's "reserved-identifiers" document
    requirer_csrs,     \* certificates_requirers.get_requirer_csrs()
    deferred,          \* deferred certificate_creation_request events
    admitted,          \* history: requests allowed with limit-to-first-requester on
    last               \* what the most recent handler did

vars == <<config_one, config_first, upstream_relation, peer_relation, reserved,
          requirer_csrs, deferred, admitted, last>>

RequirerCSR(relation_id, csr) == [relation_id |-> relation_id, csr |-> csr]

\* ------------------------------------------------------------------ filters

\* LimitToOneRequest.evaluate with the limit off by one.
LimitToOneRequest_evaluate_off_by_one(csr, relation_id, all_requirers_csrs) ==
    LET relevant_csrs == {c \in all_requirers_csrs : c.relation_id = relation_id}
    IN  IF Cardinality(relevant_csrs) > 2
        THEN "False"
        ELSE "True"

\* LimitToOneRequest.evaluate without the count.
LimitToOneRequest_evaluate_always_true(csr, relation_id, all_requirers_csrs) ==
    "True"

\* LimitToOneRequest.evaluate
LimitToOneRequest_evaluate(csr, relation_id, all_requirers_csrs) ==
    LET relevant_csrs == {c \in all_requirers_csrs : c.relation_id = relation_id}
    IN  IF Cardinality(relevant_csrs) > 1
        THEN "False"
        ELSE "True"

\* LimitToFirstRequester._get_reserved_identifiers
_get_reserved_identifiers(relation, databag) ==
    IF ~relation THEN EmptyDict ELSE json_loads(databag)

\* LimitToFirstRequester._set_reserved_identifiers: the new databag value.
_set_reserved_identifiers(relation, databag, new_mapping) ==
    IF ~relation THEN databag ELSE json_dumps(new_mapping)

\* _update_reserved_identifier_mapping with the common names reserved as DNS
\* names.
_update_reserved_identifier_mapping_with_subjects(csr, relation_id, relation, databag) ==
    LET csr_object == load_pem_x509_csr(csr)
        dnss == csr_object.dns \o csr_object.subjects
        ips == str_ips(csr_object.ips)
        oids == dotted_strings(csr_object.oids)
        cur_mapping == _get_reserved_identifiers(relation, databag)
        new_mapping ==
            [k \in DOMAIN cur_mapping \cup Kinds |->
                CASE k = "dns" -> DictUnion(DictGet(cur_mapping, "dns"),
                                            DictFromKeys(dnss, relation_id))
                  [] k = "ip" -> DictUnion(DictGet(cur_mapping, "ip"),
                                           DictFromKeys(ips, relation_id))
                  [] k = "oid" -> DictUnion(DictGet(cur_mapping, "oid"),
                                            DictFromKeys(oids, relation_id))
                  [] OTHER -> cur_mapping[k]]
    IN  _set_reserved_identifiers(relation, databag, new_mapping)

\* LimitToFirstRequester._update_reserved_identifier_mapping: the new databag
\* value.  Called only with a CSR that parsed and has a SAN extension.
_update_reserved_identifier_mapping(csr, relation_id, relation, databag) ==
    LET csr_object == load_pem_x509_csr(csr)
        dnss == csr_object.dns
        ips == str_ips(csr_object.ips)
        oids == dotted_strings(csr_object.oids)
        cur_mapping == _get_reserved_identifiers(relation, databag)
        new_mapping ==
            [k \in DOMAIN cur_mapping \cup Kinds |->
                CASE k = "dns" -> DictUnion(DictGet(cur_mapping, "dns"),
                                            DictFromKeys(dnss, relation_id))
                  [] k = "ip" -> DictUnion(DictGet(cur_mapping, "ip"),
                                           DictFromKeys(ips, relation_id))
                  [] k = "oid" -> DictUnion(DictGet(cur_mapping, "oid"),
                                            DictFromKeys(oids, relation_id))
                  [] OTHER -> cur_mapping[k]]
    IN  _set_reserved_identifiers(relation, databag, new_mapping)

\* ReservedByOther without the comparison of the owner with the requester.
ReservedByOther_never(reserved_identifiers, kind, id, relation_id) ==
    /\ id \in DOMAIN DictGet(reserved_identifiers, kind)
    /\ FALSE

\* ReservedByOther with a reservation counting only while its owner has a CSR
\* in its databag.
ReservedByOther_while_outstanding(reserved_identifiers, kind, id, relation_id) ==
    /\ id \in DOMAIN DictGet(reserved_identifiers, kind)
    /\ reserved_identifiers[kind][id] # relation_id
    /\ \E x \in requirer_csrs : x.relation_id = reserved_identifiers[kind][id]

\* An identifier is reserved under `kind` by another relation.
ReservedByOther(reserved_identifiers, kind, id, relation_id) ==
    /\ id \in DOMAIN DictGet(reserved_identifiers, kind)
    /\ reserved_identifiers[kind][id] # relation_id

\* LimitToFirstRequester.evaluate with the DNS loop run over the subjects only.
LimitToFirstRequester_evaluate_no_san_dns(csr, relation_id, relation, databag) ==
    LET csr_object == load_pem_x509_csr(csr)
        subjects == csr_object.subjects
        reserved_identifiers == _get_reserved_identifiers(relation, databag)
        Denies(kind, chain) ==
            \E i \in DOMAIN chain :
                ReservedByOther(reserved_identifiers, kind, chain[i], relation_id)
    IN  IF ~relation THEN "False"
        ELSE IF ~csr_object.ok THEN "Raise"
        ELSE IF ~csr_object.has_san THEN "Raise"
        ELSE IF Denies("dns", subjects) THEN "False"
        ELSE IF Denies("ip", str_ips(csr_object.ips) \o subjects) THEN "False"
        ELSE IF Denies("oid", dotted_strings(csr_object.oids) \o subjects)
             THEN "False"
        ELSE "True"

\* LimitToFirstRequester.evaluate with the three loops run over the SAN values
\* only.
LimitToFirstRequester_evaluate_san_only(csr, relation_id, relation, databag) ==
    LET csr_object == load_pem_x509_csr(csr)
        reserved_identifiers == _get_reserved_identifiers(relation, databag)
        Denies(kind, chain) ==
            \E i \in DOMAIN chain :
                ReservedByOther(reserved_identifiers, kind, chain[i], relation_id)
    IN  IF ~relation THEN "False"
        ELSE IF ~csr_object.ok THEN "Raise"
        ELSE IF ~csr_object.has_san THEN "Raise"
        ELSE IF Denies("dns", csr_object.dns) THEN "False"
        ELSE IF Denies("ip", str_ips(csr_object.ips)) THEN "False"
        ELSE IF Denies("oid", dotted_strings(csr_object.oids)) THEN "False"
        ELSE "True"

\* LimitToFirstRequester.evaluate without the check of the peer relation.
LimitToFirstRequester_evaluate_no_peer_check(csr, relation_id, relation, databag) ==
    LET csr_object == load_pem_x509_csr(csr)
        subjects == csr_object.subjects
        reserved_identifiers == _get_reserved_identifiers(relation, databag)
        Denies(kind, chain) ==
            \E i \in DOMAIN chain :
                ReservedByOther(reserved_identifiers, kind, chain[i], relation_id)
    IN  IF ~csr_object.ok THEN "Raise"
        ELSE IF ~csr_object.has_san THEN "Raise"
        ELSE IF Denies("dns", csr_object.dns \o subjects) THEN "False"
        ELSE IF Denies("ip", str_ips(csr_object.ips) \o subjects) THEN "False"
        ELSE IF Denies("oid", dotted_strings(csr_object.oids) \o subjects)
             THEN "False"
        ELSE "True"

\* LimitToFirstRequester.evaluate
LimitToFirstRequester_evaluate(csr, relation_id, relation, databag) ==
    LET csr_object == load_pem_x509_csr(csr)
        subjects == csr_object.subjects
        reserved_identifiers == _get_reserved_identifiers(relation, databag)
        Denies(kind, chain) ==
            \E i \in DOMAIN chain :
                ReservedByOther(reserved_identifiers, kind, chain[i], relation_id)
    IN  IF ~relation THEN "False"
        ELSE IF ~csr_object.ok THEN "Raise"
        ELSE IF ~csr_object.has_san THEN "Raise"
        ELSE IF Denies("dns", csr_object.dns \o subjects) THEN "False"
        ELSE IF Denies("ip", str_ips(csr_object.ips) \o subjects) THEN "False"
        ELSE IF Denies("oid", dotted_strings(csr_object.oids) \o subjects)
             THEN "False"
        ELSE "True"

\* ------------------------------------------------------------ the controller

\* TLSConstraintsCharm._get_csr_filters
_get_csr_filters ==
    (IF config_one THEN <<"LimitToOneRequest">> ELSE <<>>)
    \o (IF config_first THEN <<"LimitToFirstRequester">> ELSE <<>>)

\* filter.evaluate(csr, relation_id, all_requirers_csrs)
filter_evaluate(filter, csr, relation_id, all_requirers_csrs) ==
    IF filter = "LimitToOneRequest"
    THEN LimitToOneRequest_evaluate(csr, relation_id, all_requirers_csrs)
    ELSE LimitToFirstRequester_evaluate(csr, relation_id, peer_relation, reserved)

\* filter.callback(csr, relation_id): the new databag value.
filter_callback(filter, csr, relation_id, databag) ==
    IF filter = "LimitToOneRequest"
    THEN databag
    ELSE _update_reserved_identifier_mapping(csr, relation_id, peer_relation, databag)

\* any(...) in the place of all(...): the first filter that returns True decides.
RECURSIVE any_evaluate(_, _, _, _)
any_evaluate(filters, csr, relation_id, all_requirers_csrs) ==
    IF Len(filters) = 0 THEN "True"
    ELSE LET r == filter_evaluate(Head(filters), csr, relation_id, all_requirers_csrs)
         IN  IF r = "False" /\ Len(filters) > 1
             THEN any_evaluate(Tail(filters), csr, relation_id, all_requirers_csrs)
             ELSE r

\* all(filter.evaluate(...) for filter in filters): "True", "False", or "Raise"
\* when an evaluate raises; the generator stops at the first filter that
\* returns False or raises.
RECURSIVE all_evaluate(_, _, _, _)
all_evaluate(filters, csr, relation_id, all_requirers_csrs) ==
    IF Len(filters) = 0 THEN "True"
    ELSE LET r == filter_evaluate(Head(filters), csr, relation_id, all_requirers_csrs)
         IN  IF r = "True"
             THEN all_evaluate(Tail(filters), csr, relation_id, all_requirers_csrs)
             ELSE r

\* [filter.callback(csr, relation_id) for filter in filters]
RECURSIVE all_callback(_, _, _, _)
all_callback(filters, csr, relation_id, databag) ==
    IF Len(filters) = 0 THEN databag
    ELSE all_callback(Tail(filters), csr, relation_id,
                      filter_callback(Head(filters), csr, relation_id, databag))

\* _is_certificate_allowed with the callbacks run before the decision is looked at.
_is_certificate_allowed_callbacks_first(csr, relation_id, all_requirers_csrs) ==
    LET filters == _get_csr_filters
        r == all_evaluate(filters, csr, relation_id, all_requirers_csrs)
    IN  [result |-> r,
         databag |-> IF r = "Raise" THEN reserved
                     ELSE all_callback(filters, csr, relation_id, reserved)]

\* TLSConstraintsCharm._is_certificate_allowed: the decision and the databag
\* it leaves.
_is_certificate_allowed(csr, relation_id, all_requirers_csrs) ==
    LET filters == _get_csr_filters
        r == all_evaluate(filters, csr, relation_id, all_requirers_csrs)
    IN  IF r # "True"
        THEN [result |-> r, databag |-> reserved]
        ELSE [result |-> "True",
              databag |-> all_callback(filters, csr, relation_id, reserved)]

\* _get_relation_id_for_csr without the comparison of the CSRs.
_get_relation_id_for_csr_any_csr(csr, all_requirers_csrs) ==
    LET relation_ids == {c.relation_id : c \in all_requirers_csrs}
    IN  IF relation_ids = {} THEN [value |-> {}, log |-> ""]
        ELSE IF Cardinality(relation_ids) > 1 THEN [value |-> {}, log |-> "multiple"]
        ELSE [value |-> relation_ids, log |-> ""]

\* _get_relation_id_for_csr without the check for several relations.
_get_relation_id_for_csr_pop_any(csr, all_requirers_csrs) ==
    LET relation_ids == {c.relation_id : c \in {x \in all_requirers_csrs : x.csr = csr}}
    IN  IF relation_ids = {} THEN [value |-> {}, log |-> ""]
        ELSE [value |-> {CHOOSE r \in relation_ids : TRUE}, log |-> ""]

\* TLSConstraintsCharm._get_relation_id_for_csr: Optional[int] as a set with at
\* most one element ({} is None), and what was logged.
_get_relation_id_for_csr(csr, all_requirers_csrs) ==
    LET relation_ids == {c.relation_id : c \in {x \in all_requirers_csrs : x.csr = csr}}
    IN  IF relation_ids = {} THEN [value |-> {}, log |-> ""]
        ELSE IF Cardinality(relation_ids) > 1 THEN [value |-> {}, log |-> "multiple"]
        ELSE [value |-> relation_ids, log |-> ""]

\* Python's `not x` for x an Optional[int]: None and 0 are both falsy.
not_optional_int(x) == x = {} \/ x = {0}

\* What a handler did: its outcome, what it logged about the CSR's relation,
\* and the relation a certificate was set on.
Did(outcome, log, to) == [outcome |-> outcome, log |-> log, to |-> to]

Nothing == Did("", "", {})

\* ---------------------------------------------------------------------- Init

Init ==
    /\ config_one \in BOOLEAN
    /\ config_first \in BOOLEAN
    /\ upstream_relation = FALSE
    /\ peer_relation = FALSE
    /\ reserved = EmptyDocument
    /\ requirer_csrs = {}
    /\ deferred = {}
    /\ admitted = {}
    /\ last = Nothing

\* ------------------------------------------------------------------- actions

\* _on_certificate_creation_request with the filters run before the upstream
\* relation is looked for.
_on_certificate_creation_request_filters_first(relation_id, csr, all_requirers_csrs, queue) ==
    LET d == _is_certificate_allowed(csr, relation_id, all_requirers_csrs)
    IN  /\ reserved' = d.databag
        /\ IF ~upstream_relation
           THEN /\ deferred' = queue \cup {RequirerCSR(relation_id, csr)}
                /\ last' = Did("deferred", "", {})
                /\ UNCHANGED admitted
           ELSE /\ deferred' = IF d.result = "Raise" THEN deferred ELSE queue
                /\ IF d.result = "True"
                   THEN /\ admitted' = IF config_first
                                       THEN admitted \cup {RequirerCSR(relation_id, csr)}
                                       ELSE admitted
                        /\ last' = Did("request_certificate_creation", "", {})
                   ELSE /\ last' = Did(IF d.result = "False" THEN "denied"
                                                             ELSE "raised", "", {})
                        /\ UNCHANGED admitted

\* TLSConstraintsCharm._on_certificate_creation_request, for the event
\* (relation_id, csr) with the requirers' databags holding all_requirers_csrs;
\* `queue` is the framework's deferred events other than this one.  When a
\* filter raises, the hook fails: the framework's queue is left as it was.
_on_certificate_creation_request(relation_id, csr, all_requirers_csrs, queue) ==
    IF ~upstream_relation
    THEN /\ deferred' = queue \cup {RequirerCSR(relation_id, csr)}
         /\ last' = Did("deferred", "", {})
         /\ UNCHANGED <<reserved, admitted>>
    ELSE LET d == _is_certificate_allowed(csr, relation_id, all_requirers_csrs)
         IN  /\ deferred' = IF d.result = "Raise" THEN deferred ELSE queue
             /\ reserved' = d.databag
             /\ IF d.result = "True"
                THEN /\ admitted' = IF config_first
                                    THEN admitted \cup {RequirerCSR(relation_id, csr)}
                                    ELSE admitted
                     /\ last' = Did("request_certificate_creation", "", {})
                ELSE /\ last' = Did(IF d.result = "False" THEN "denied" ELSE "raised",
                                    "", {})
                     /\ UNCHANGED admitted

\* A requirer has a CSR without a certificate in its databag (it writes it now,
\* or it is there already) and the library emits certificate_creation_request.
CreationRequest(relation_id, csr) ==
    LET all_requirers_csrs == requirer_csrs \cup {RequirerCSR(relation_id, csr)}
    IN  /\ Cardinality(all_requirers_csrs) <= MaxRequirerCsrs
        /\ (upstream_relation
            \/ RequirerCSR(relation_id, csr) \in deferred
            \/ Cardinality(deferred) < MaxDeferred)
        /\ requirer_csrs' = all_requirers_csrs
        /\ _on_certificate_creation_request(relation_id, csr, all_requirers_csrs,
                                            deferred)
        /\ UNCHANGED <<config_one, config_first, upstream_relation, peer_relation>>

\* The framework re-emits a deferred certificate_creation_request event.
Reemit(relation_id, csr) ==
    /\ RequirerCSR(relation_id, csr) \in deferred
    /\ _on_certificate_creation_request(relation_id, csr, requirer_csrs,
                                        deferred \ {RequirerCSR(relation_id, csr)})
    /\ UNCHANGED <<config_one, config_first, upstream_relation, peer_relation,
                   requirer_csrs>>

\* TLSConstraintsCharm._on_certificate_revocation_request
_on_certificate_revocation_request(csr) ==
    IF ~upstream_relation
    THEN last' = Did("blocked", "", {})
    ELSE last' = Did("request_certificate_revocation", "", {})

\* A requirer withdraws a CSR from its databag and the library emits
\* certificate_revocation_request for it.
RevocationRequest(relation_id, csr) ==
    /\ RequirerCSR(relation_id, csr) \in requirer_csrs
    /\ requirer_csrs' = requirer_csrs \ {RequirerCSR(relation_id, csr)}
    /\ _on_certificate_revocation_request(csr)
    /\ UNCHANGED <<config_one, config_first, upstream_relation, peer_relation,
                   reserved, deferred, admitted>>

\* TLSConstraintsCharm._on_certificate_available
_on_certificate_available(csr) ==
    LET found == _get_relation_id_for_csr(csr, requirer_csrs)
        relation_id == found.value
    IN  IF not_optional_int(relation_id)
        THEN last' = Did("dropped", found.log, {})
        ELSE last' = Did("set_relation_certificate", found.log, relation_id)

\* The upstream provider publishes a certificate for a CSR.
CertificateAvailable(csr) ==
    /\ upstream_relation
    /\ _on_certificate_available(csr)
    /\ UNCHANGED <<config_one, config_first, upstream_relation, peer_relation,
                   reserved, requirer_csrs, deferred, admitted>>

Reasons == {"expired", "revoked"}

\* _on_certificate_invalidated without the test of the reason.
_on_certificate_invalidated_always_remove(reason) ==
    last' = Did("remove_certificate", "", {})

\* TLSConstraintsCharm._on_certificate_invalidated
_on_certificate_invalidated(reason) ==
    IF reason = "expired"
    THEN last' = Did("ignored", "", {})
    ELSE last' = Did("remove_certificate", "", {})

CertificateInvalidated(reason) ==
    /\ upstream_relation
    /\ _on_certificate_invalidated(reason)
    /\ UNCHANGED <<config_one, config_first, upstream_relation, peer_relation,
                   reserved, requirer_csrs, deferred, admitted>>

\* TLSConstraintsCharm._on_all_certificates_invalidated
_on_all_certificates_invalidated ==
    last' = Did("revoke_all_certificates", "", {})

AllCertificatesInvalidated ==
    /\ upstream_relation
    /\ _on_all_certificates_invalidated
    /\ UNCHANGED <<config_one, config_first, upstream_relation, peer_relation,
                   reserved, requirer_csrs, deferred, admitted>>

\* The certificates-upstream relation is created: get_relation returns it
\* from now on.
UpstreamJoined ==
    /\ ~upstream_relation
    /\ upstream_relation' = TRUE
    /\ last' = Nothing
    /\ UNCHANGED <<config_one, config_first, peer_relation, reserved,
                   requirer_csrs, deferred, admitted>>

\* The reserved-identifiers peer relation becomes visible to the unit.
PeerJoined ==
    /\ ~peer_relation
    /\ peer_relation' = TRUE
    /\ last' = Nothing
    /\ UNCHANGED <<config_one, config_first, upstream_relation, reserved,
                   requirer_csrs, deferred, admitted>>

\* The framework re-emits deferred events before it emits a new one: while
\* a deferred event can be handled, it is handled first.
NoReemitDue == ~(upstream_relation /\ deferred # {})

Next ==
    \/ \E r \in RelationIds, c \in CSRS : NoReemitDue /\ CreationRequest(r, c)
    \/ \E r \in RelationIds, c \in CSRS : Reemit(r, c)
    \/ \E r \in RelationIds, c \in CSRS : NoReemitDue /\ RevocationRequest(r, c)
    \/ \E c \in CSRS : NoReemitDue /\ CertificateAvailable(c)
    \/ \E reason \in Reasons : NoReemitDue /\ CertificateInvalidated(reason)
    \/ NoReemitDue /\ AllCertificatesInvalidated
    \/ UpstreamJoined
    \/ NoReemitDue /\ PeerJoined

Spec == Init /\ [][Next]_vars

\* -------------------------------------------------------------------- claims

\* The event (relation_id, csr) is handled by _on_certificate_creation_request,
\* newly emitted or re-emitted after a deferral.
Handled(relation_id, csr) ==
    CreationRequest(relation_id, csr) \/ Reemit(relation_id, csr)

\* The owners the stored document gives an identifier.
Owners(document, kind, id) ==
    {p[2] : p \in {q \in UNION {m[2] : m \in {x \in document : x[1] = kind}} :
                      q[1] = id}}

\* Every identifier the stored document names, with its kind.
Reserved(document) ==
    UNION {{<<m[1], q[1]>> : q \in m[2]} : m \in document}

SanDns(csr) == Range(load_pem_x509_csr(csr).dns)

Allowed == "request_certificate_creation"

\* C1: with limit-to-first-requester on, once a request of relation t1 whose
\* CSR has SAN DNS name d was allowed, every creation request of another
\* relation t2 whose CSR has d as a SAN DNS name is denied (not forwarded, and
\* nothing is reserved), whatever happened in between.
C1_FirstClaimWinsExclusive ==
    [][\A t2 \in RelationIds, c2 \in CSRS :
          (config_first /\ Handled(t2, c2))
          => \A a \in admitted :
                (a.relation_id # t2 /\ SanDns(a.csr) \cap SanDns(c2) # {})
                => /\ last'.outcome = "denied"
                   /\ reserved' = reserved]_vars

\* C1's case: a.com was granted to relation 0, relation 1 then asked for a
\* CSR with a.com and only limit-to-first-requester could deny it.
C1_Witness ==
    /\ config_first /\ ~config_one
    /\ RequirerCSR(0, "A") \in admitted
    /\ RequirerCSR(1, "A") \in requirer_csrs
    /\ last.outcome = "denied"

\* C2: an identifier never has two owners, and a reservation once made is
\* never removed nor given to another relation.
C2_ReservationsStable ==
    /\ [](\A i \in Reserved(reserved) : Cardinality(Owners(reserved, i[1], i[2])) = 1)
    /\ [][\A i \in Reserved(reserved) :
             Owners(reserved', i[1], i[2]) = Owners(reserved, i[1], i[2])]_vars

\* C2's case: reservations of two relations are in the table and a revocation
\* request was handled after them.
C2_Witness ==
    /\ Owners(reserved, "dns", "a.com") = {0}
    /\ Owners(reserved, "oid", "1.2.3") = {1}
    /\ last.outcome = "request_certificate_revocation"

\* C3: with both filters on, a creation request is allowed iff each filter's
\* evaluate returns True on the same CSR, relation, requirer CSRs and table,
\* and a request that is not allowed leaves the table as it was.
C3_Conjunction ==
    [][\A r \in RelationIds, c \in CSRS :
          (config_one /\ config_first /\ upstream_relation /\ Handled(r, c))
          => /\ (last'.outcome = Allowed)
                <=> ( /\ LimitToOneRequest_evaluate(c, r, requirer_csrs') = "True"
                      /\ LimitToFirstRequester_evaluate(c, r, peer_relation, reserved)
                            = "True" )
             /\ (last'.outcome # Allowed) => (reserved' = reserved)]_vars

\* C3's case: with both filters on, relation 0 has two CSRs, which the
\* single-request filter denies, none of them reserved by another relation.
C3_Witness ==
    /\ config_one /\ config_first /\ peer_relation
    /\ last.outcome = "denied"
    /\ requirer_csrs = {RequirerCSR(0, "A"), RequirerCSR(0, "C")}
    /\ \A i \in Reserved(reserved) : Owners(reserved, i[1], i[2]) = {0}

\* C4: with limit-to-first-requester on and no peer relation, every creation
\* request that is decided is denied, whatever its CSR, relation and requirer
\* CSRs; none is forwarded and no reservation is written.
C4_FailClosedWithoutPeer ==
    [][\A r \in RelationIds, c \in CSRS :
          (config_first /\ ~peer_relation /\ Handled(r, c))
          => /\ last'.outcome = IF upstream_relation THEN "denied" ELSE "deferred"
             /\ reserved' = reserved
             /\ reserved' = EmptyDocument
             /\ admitted' = {}]_vars

\* C4's case: only limit-to-first-requester is on, the upstream relation is
\* there, the peer relation is not, and a request was denied.
C4_Witness ==
    /\ config_first /\ ~config_one
    /\ upstream_relation /\ ~peer_relation
    /\ last.outcome = "denied"

\* C5: once a request (t, c) was allowed with limit-to-first-requester on,
\* the same CSR submitted again by t passes that filter and leaves the table
\* as it was.
C5_ReplayAllowed ==
    [][\A t \in RelationIds, c \in CSRS :
          (config_first /\ RequirerCSR(t, c) \in admitted /\ Handled(t, c))
          => /\ LimitToFirstRequester_evaluate(c, t, peer_relation, reserved) = "True"
             /\ reserved' = reserved]_vars

\* The CSRs relation r has in the requirers' databags.
CsrsOf(r) == {x.csr : x \in {y \in requirer_csrs : y.relation_id = r}}

\* C6: with limit-to-one-request on, when a relation has exactly one CSR
\* outstanding, its creation request with another CSR is denied, and its
\* creation request with the same CSR passes this filter: it is allowed iff
\* limit-to-first-requester, when on, allows it.
C6_SingleOutstandingRequest ==
    [][\A r \in RelationIds, c1 \in CSRS, c2 \in CSRS :
          ( /\ config_one /\ upstream_relation
            /\ CsrsOf(r) = {c1}
            /\ CreationRequest(r, c2) )
          => IF c2 # c1
             THEN last'.outcome = "denied"
             ELSE /\ LimitToOneRequest_evaluate(c2, r, requirer_csrs') = "True"
                  /\ (last'.outcome = Allowed)
                     <=> ( \/ ~config_first
                           \/ LimitToFirstRequester_evaluate(c2, r, peer_relation,
                                                             reserved) = "True" )]_vars

\* C6's case: only limit-to-one-request is on, relation 0 has two CSRs and the
\* request was denied.
C6_Witness ==
    /\ config_one /\ ~config_first
    /\ CsrsOf(0) = {"A", "B"}
    /\ last.outcome = "denied"

\* Every filter that the configuration turns on returns True.
FiltersPass(csr, relation_id, all_requirers_csrs) ==
    /\ config_one
       => LimitToOneRequest_evaluate(csr, relation_id, all_requirers_csrs) = "True"
    /\ config_first
       => LimitToFirstRequester_evaluate(csr, relation_id, peer_relation, reserved)
             = "True"

\* C7: a CSR is passed to request_certificate_creation only by the handling of
\* a creation request for which every active filter returned True on the
\* requirer CSRs of that event; a request some filter does not pass is not
\* forwarded.
C7_ForwardOnlyIfAllowed ==
    [][ /\ (last'.outcome = Allowed)
           => \E r \in RelationIds, c \in CSRS :
                 /\ Handled(r, c)
                 /\ upstream_relation
                 /\ FiltersPass(c, r, requirer_csrs')
        /\ \A r \in RelationIds, c \in CSRS :
              (Handled(r, c) /\ ~FiltersPass(c, r, requirer_csrs'))
              => last'.outcome \in {"denied", "raised", "deferred"} ]_vars

\* C7's case: with both filters on a request was forwarded while another
\* relation holds a reservation.
C7_Witness ==
    /\ config_one /\ config_first
    /\ last.outcome = Allowed
    /\ \E i \in Reserved(reserved) : Owners(reserved, i[1], i[2]) = {0}
    /\ \E i \in Reserved(reserved) : Owners(reserved, i[1], i[2]) = {1}

\* The relations that have a CSR equal to csr in their databags.
RelationsWith(csr) == {x.relation_id : x \in {y \in requirer_csrs : y.csr = csr}}

\* C8: the resolver gives the one relation that has the CSR, nothing (with
\* the several-requirers error logged) when several relations have it, and
\* nothing when none has it; in the last two cases the certificate is set on
\* no relation.
C8_ResolverDisambiguation ==
    [][\A c \in CSRS :
          CertificateAvailable(c)
          => LET found == _get_relation_id_for_csr(c, requirer_csrs)
                 n == Cardinality(RelationsWith(c))
             IN  /\ (n = 1) => (found.value = RelationsWith(c) /\ found.log = "")
                 /\ (n > 1) => /\ found = [value |-> {}, log |-> "multiple"]
                               /\ last' = Did("dropped", "multiple", {})
                 /\ (n = 0) => /\ found = [value |-> {}, log |-> ""]
                               /\ last' = Did("dropped", "", {})]_vars

\* C8's case: two relations have the same CSR and its certificate arrived.
C8_Witness ==
    /\ RelationsWith("A") = {0, 1}
    /\ last = Did("dropped", "multiple", {})

\* C9: a certificate for a CSR that exactly one relation t has is set on
\* relation t, whatever t is.
C9_CertificateReachesRequester ==
    [][\A c \in CSRS, t \in RelationIds :
          (CertificateAvailable(c) /\ RelationsWith(c) = {t})
          => last' = Did("set_relation_certificate", "", {t})]_vars

\* C10: with the upstream relation there and limit-to-first-requester on, a
\* creation request whose CSR does not parse is denied: the handler does not
\* raise, forwards nothing and leaves the table as it was.
C10_MalformedCsrDenied ==
    [][\A r \in RelationIds, c \in CSRS :
          ( /\ ~load_pem_x509_csr(c).ok
            /\ upstream_relation /\ config_first
            /\ Handled(r, c) )
          => /\ last'.outcome = "denied"
             /\ reserved' = reserved]_vars

\* C11: with limit-to-first-requester on and the peer and upstream relations
\* there, a creation request whose CSR parses and has no SAN extension ends
\* allowed or denied, not in an error, and when allowed it reserves nothing.
C11_AbsentSanNotAnError ==
    [][\A r \in RelationIds, c \in CSRS :
          ( /\ load_pem_x509_csr(c).ok /\ ~load_pem_x509_csr(c).has_san
            /\ config_first /\ peer_relation /\ upstream_relation
            /\ Handled(r, c) )
          => /\ last'.outcome \in {Allowed, "denied"}
             /\ reserved' = reserved]_vars

\* The outcome of a creation request with decision d.
OutcomeOf(d) ==
    IF d.result = "True" THEN Allowed
    ELSE IF d.result = "False" THEN "denied" ELSE "raised"

\* C12: a creation request handled without the upstream relation is deferred
\* and nothing else happens: the table, the history of allowed requests and
\* the other queued events stay as they were and nothing is forwarded; a
\* re-emitted request is decided as the filters decide in the state of the
\* re-emission.
C12_DeferralNoSideEffects ==
    [][\A r \in RelationIds, c \in CSRS :
          /\ (~upstream_relation /\ Handled(r, c))
             => /\ last' = Did("deferred", "", {})
                /\ deferred' = deferred \cup {RequirerCSR(r, c)}
                /\ reserved' = reserved
                /\ admitted' = admitted
          /\ (upstream_relation /\ Reemit(r, c))
             => LET d == _is_certificate_allowed(c, r, requirer_csrs)
                IN  /\ last'.outcome = OutcomeOf(d)
                    /\ reserved' = d.databag]_vars

\* C12's case: with limit-to-first-requester on and the peer relation there, a
\* request that the filter passes was deferred for want of the upstream
\* relation.
C12_Witness ==
    /\ config_first /\ peer_relation /\ ~upstream_relation
    /\ deferred = {RequirerCSR(0, "A")}
    /\ last.outcome = "deferred"

\* The SAN values of a CSR, each with its kind, as the table names them.
SanIds(csr) ==
    LET csr_object == load_pem_x509_csr(csr)
    IN  {<<"dns", id>> : id \in Range(csr_object.dns)}
        \cup {<<"ip", id>> : id \in Range(str_ips(csr_object.ips))}
        \cup {<<"oid", id>> : id \in Range(dotted_strings(csr_object.oids))}

\* A step of a handler other than the creation-request handler.
OtherHandler ==
    \/ \E r \in RelationIds, c \in CSRS : RevocationRequest(r, c)
    \/ \E c \in CSRS : CertificateAvailable(c)
    \/ \E reason \in Reasons : CertificateInvalidated(reason)
    \/ AllCertificatesInvalidated

\* C13: the revocation-request, certificate-invalidated, all-certificates-
\* invalidated and certificate-available handlers leave the table as it was,
\* and a creation request with a SAN value that the table gives to another
\* relation is denied, whether or not that relation still has a CSR.
C13_ReservationsSurviveRevocation ==
    [][ /\ OtherHandler => reserved' = reserved
        /\ \A t2 \in RelationIds, c2 \in CSRS :
              ( /\ config_first /\ upstream_relation
                /\ Handled(t2, c2)
                /\ \E i \in SanIds(c2) :
                      Owners(reserved, i[1], i[2]) \ {t2} # {} )
              => /\ last'.outcome = "denied"
                 /\ reserved' = reserved ]_vars

\* C13's case: relation 0 reserved a.com and has withdrawn its CSR; relation 1
\* then asked for a.com and only limit-to-first-requester could deny it.
C13_Witness ==
    /\ config_first /\ ~config_one
    /\ Owners(reserved, "dns", "a.com") = {0}
    /\ CsrsOf(0) = {}
    /\ RequirerCSR(1, "A") \in requirer_csrs
    /\ last.outcome = "denied"

\* C14: certificate_invalidated with reason "expired" removes no certificate
\* and changes nothing else; with another reason the certificate is removed
\* from the requirers.
C14_ExpiredIgnored ==
    [][\A reason \in Reasons :
          CertificateInvalidated(reason)
          => /\ last'.outcome = IF reason = "expired" THEN "ignored"
                                                       ELSE "remove_certificate"
             /\ UNCHANGED <<config_one, config_first, upstream_relation,
                            peer_relation, reserved, requirer_csrs, deferred,
                            admitted>>]_vars

\* C14's case: an expiry was ignored while requirers have CSRs and the table
\* has reservations.
C14_Witness ==
    /\ last.outcome = "ignored"
    /\ requirer_csrs # {}
    /\ reserved # EmptyDocument

\* C15: when a creation request of relation t with CSR c is allowed with
\* limit-to-first-requester on, the table afterwards gives every SAN DNS, IP
\* and OID value of c to t under its kind, and every other entry of the table
\* is as it was.
C15_CommitPostcondition ==
    [][\A t \in RelationIds, c \in CSRS :
          (config_first /\ Handled(t, c) /\ last'.outcome = Allowed)
          => /\ \A i \in SanIds(c) : Owners(reserved', i[1], i[2]) = {t}
             /\ \A i \in Reserved(reserved) \ SanIds(c) :
                   Owners(reserved', i[1], i[2]) = Owners(reserved, i[1], i[2])]_vars

\* C15's case: with only limit-to-first-requester on, a request was allowed
\* and the table holds a reservation of each relation, of different kinds.
C15_Witness ==
    /\ config_first /\ ~config_one
    /\ last.outcome = Allowed
    /\ Owners(reserved, "dns", "a.com") = {0}
    /\ Owners(reserved, "ip", "10.0.0.1") = {1}

\* The subject common names of a CSR.
CommonNames(csr) == Range(load_pem_x509_csr(csr).subjects)

C17_OneForwardedPerRelation ==
    [][\A r \in RelationIds, c \in CSRS :
          ( /\ config_one
            /\ Handled(r, c)
            /\ RequirerCSR(r, c) \in requirer_csrs'
            /\ last'.outcome = Allowed )
          => {x.csr : x \in {y \in requirer_csrs' : y.relation_id = r}} = {c}]_vars

\* C17's case: with only limit-to-one-request on, each relation has one CSR
\* and a request was forwarded.
C17_Witness ==
    /\ config_one /\ ~config_first
    /\ CsrsOf(0) = {"A"}
    /\ CsrsOf(1) = {"B"}
    /\ last.outcome = Allowed

\* C18: a deferred creation request that is re-emitted while the upstream
\* relation is there leaves the queue with a decision, allowed or denied.
C18_RedeliveryDecides ==
    [][\A r \in RelationIds, c \in CSRS :
          (upstream_relation /\ Reemit(r, c))
          => /\ RequirerCSR(r, c) \notin deferred'
             /\ last'.outcome \in {Allowed, "denied"}]_vars

\* C19: a certificate for CSR c is set on relation t only by the
\* certificate-available handler, and only when t has c in its databag and no
\* other relation has it.
C19_NoLeakToNonRequester ==
    [][ /\ (last'.outcome = "set_relation_certificate")
           => \E c \in CSRS : CertificateAvailable(c)
        /\ \A c \in CSRS :
              (CertificateAvailable(c) /\ last'.outcome = "set_relation_certificate")
              => /\ Cardinality(last'.to) = 1
                 /\ RelationsWith(c) = last'.to ]_vars

\* C19's case: both relations have a CSR, not the same one, and a certificate
\* was set on relation 1.
C19_Witness ==
    /\ CsrsOf(0) = {"A"}
    /\ CsrsOf(1) = {"B"}
    /\ last = Did("set_relation_certificate", "", {1})

====
